---- MODULE Spec2Model ----
(***************************************************************************)
(* TripPlannerService (tripapi/services.py): the Hours-of-Service stop     *)
(* scheduler plan_rest_stops and the duty log builder generate_eld_logs.   *)
(*                                                                         *)
(* Units.  The program computes in float hours and float miles.  The model *)
(* keeps the same quantities as exact integers: a duration or an instant   *)
(* is a number of ticks of 1/660 hour (1 minute = 11 ticks, 1 mile at      *)
(* AVG_SPEED = 12 ticks) and a distance is a number of 1/12 mile, so that  *)
(* hours * AVG_SPEED and miles / AVG_SPEED are exact on every value the    *)
(* model reaches.  An instant is counted from midnight of the departure    *)
(* day; its date is the day index.  A log hour (datetime.hour +            *)
(* datetime.minute / 60.0) is a whole number of minutes: the seconds of    *)
(* the instant are dropped there, as the program drops them.               *)
(***************************************************************************)
EXTENDS Integers, Sequences, FiniteSets, TLC

\* ---------------------------------------------------------------- constants
MAX_DAILY_DRIVING == 11
MAX_DAILY_DUTY == 14
MIN_REST_PERIOD == 10
MAX_CYCLE_HOURS == 70
FUEL_DISTANCE == 1000
AVG_SPEED == 55

\* ticks per minute, ticks per hour, ticks per day, distance units per mile
MINUTE == 11
HOUR == 60 * MINUTE
DAY == 24 * HOUR
MILE == 12

\* timedelta(minutes=30) and the literal 0.5 (hours), in ticks
HALF_HOUR == 30 * MINUTE

\* ------------------------------------------------------------------- bounds
\* the scheduling loop is followed for at most MaxStops emitted stops
MaxStops == 10

\* route_data['distance_miles'] (miles), current_cycle_used (hours) and the
\* hour of datetime.now() that the runs are started with
Distances == {30, 120, 500, 700, 1200, 1300, 2100, 2500, 4000}
CycleUsed == {0, 65, 69, 70}
StartHours == 0 .. 23
LookupResults == {"coords", "none"}

\* the pairs of runs compared by SpecPair
PairDistances == {500, 1200, 1300, 2500}
PairCycleUsed == {0, 40}
PairStartHours == {0, 17}

VARIABLES
    total_miles,              \* route_data['distance_miles']
    current_cycle_used,       \* argument of plan_rest_stops, in hours
    start_time,
    remaining_daily_driving,
    remaining_daily_duty,
    remaining_cycle_hours,
    miles_since_last_fuel,
    current_time,
    rest_stops,
    miles_traveled,
    hours_driven,
    span_driving,             \* history: hours driven since the last Rest stop, at the end of the last leg's driving
    span_duty,                \* history: on-duty hours since the last Rest stop, at the end of the last leg's duty
    span_fuel,                \* history: miles driven since the last Fuel stop, at the end of the last leg's driving
    pc,                       \* "loop" | "planned" | "logged"
    current_day,              \* generate_eld_logs: the day being built
    eld_logs,                 \* generate_eld_logs: the days built so far
    twin                      \* SpecPair: a second run of plan_rest_stops on the same inputs

schedVars == <<total_miles, current_cycle_used, start_time, remaining_daily_driving,
               remaining_daily_duty, remaining_cycle_hours, miles_since_last_fuel,
               current_time, rest_stops, miles_traveled, hours_driven,
               span_driving, span_duty, span_fuel, pc>>
logVars == <<current_day, eld_logs>>
vars == <<schedVars, logVars, twin>>

\* ------------------------------------------------------------------ helpers
Min(a, b) == IF a <= b THEN a ELSE b
Max(a, b) == IF a >= b THEN a ELSE b
Min3(a, b, c) == Min(a, Min(b, c))
Last(q) == q[Len(q)]

\* ---------------------------------------------------------- plan_rest_stops
\* The locals of one run of plan_rest_stops, as a record.
Sched ==
    [total_miles |-> total_miles, current_cycle_used |-> current_cycle_used,
     start_time |-> start_time,
     remaining_daily_driving |-> remaining_daily_driving,
     remaining_daily_duty |-> remaining_daily_duty,
     remaining_cycle_hours |-> remaining_cycle_hours,
     miles_since_last_fuel |-> miles_since_last_fuel,
     current_time |-> current_time, rest_stops |-> rest_stops,
     miles_traveled |-> miles_traveled, hours_driven |-> hours_driven,
     span_driving |-> span_driving, span_duty |-> span_duty, span_fuel |-> span_fuel,
     pc |-> pc]

\* lines 128-146: the state before the first loop iteration
InitSched(miles, used, hour) ==
    [total_miles |-> miles * MILE, current_cycle_used |-> used,
     start_time |-> hour * HOUR,
     remaining_daily_driving |-> MAX_DAILY_DRIVING * HOUR,
     remaining_daily_duty |-> MAX_DAILY_DUTY * HOUR,
     remaining_cycle_hours |-> (MAX_CYCLE_HOURS - used) * HOUR,
     miles_since_last_fuel |-> 0,
     current_time |-> hour * HOUR, rest_stops |-> <<>>,
     miles_traveled |-> 0, hours_driven |-> 0,
     span_driving |-> 0, span_duty |-> 0, span_fuel |-> 0,
     pc |-> "loop"]

\* line 151
DrivableHours_NoDailyDriving(s) == Min(s.remaining_daily_duty, s.remaining_cycle_hours)
DrivableHours(s) ==
    Min3(s.remaining_daily_driving, s.remaining_daily_duty, s.remaining_cycle_hours)

\* line 152: drivable_hours * AVG_SPEED
DrivableMiles(s) == (DrivableHours(s) * AVG_SPEED * MILE) \div HOUR

\* lines 158, 196: miles / AVG_SPEED
HoursFor(miles) == (miles * HOUR) \div (AVG_SPEED * MILE)

\* line 155
NeedsFuel_FullDayAhead(s) ==
    s.miles_since_last_fuel + MAX_DAILY_DRIVING * AVG_SPEED * MILE > FUEL_DISTANCE * MILE
NeedsFuel_IgnoresOdometer(s) == DrivableMiles(s) > FUEL_DISTANCE * MILE
NeedsFuel(s) == s.miles_since_last_fuel + DrivableMiles(s) > FUEL_DISTANCE * MILE

\* line 198
CanFinish_MilesAgainstHours(s) ==
    (s.total_miles - s.miles_traveled) \div MILE <= DrivableHours(s) \div HOUR
CanFinish(s) == HoursFor(s.total_miles - s.miles_traveled) <= DrivableHours(s)

\* lines 177, 222: the looked-up coordinates, or the placeholder
StopLocation(coords, placeholder) == IF coords # "none" THEN coords ELSE placeholder

\* the history spans restart after the stop that resets them
LastIsRest(s) == s.rest_stops # <<>> /\ ~Last(s.rest_stops).is_fuel_stop
LastIsFuel(s) == s.rest_stops # <<>> /\ Last(s.rest_stops).is_fuel_stop
BaseDriving(s) == IF LastIsRest(s) THEN 0 ELSE s.span_driving
BaseDuty(s) == IF LastIsRest(s) THEN 0 ELSE s.span_duty
BaseFuel(s) == IF LastIsFuel(s) THEN 0 ELSE s.span_fuel

\* lines 170-185: the fuel stop reached at an instant
FuelStop_WaitsForLookup(arrival, coords) ==
    [location |-> StopLocation(coords, "Unknown fuel stop"),
     arrival_time |-> arrival,
     departure_time |-> arrival + HALF_HOUR + (IF coords = "none" THEN HALF_HOUR ELSE 0),
     rest_duration |-> HALF_HOUR,
     is_fuel_stop |-> TRUE]
FuelStop(arrival, coords) ==
    [location |-> StopLocation(coords, "Unknown fuel stop"),
     arrival_time |-> arrival,
     departure_time |-> arrival + HALF_HOUR,
     rest_duration |-> HALF_HOUR,
     is_fuel_stop |-> TRUE]

\* lines 156-191: drive to the fuel stop, take it
FuelLegOf(s, coords) ==
    LET miles_to_fuel == FUEL_DISTANCE * MILE - s.miles_since_last_fuel
        hours_to_fuel == HoursFor(miles_to_fuel)
        stop == FuelStop(s.current_time + hours_to_fuel, coords)
    IN  [s EXCEPT
            !.miles_traveled = @ + miles_to_fuel,
            !.hours_driven = @ + hours_to_fuel,
            !.miles_since_last_fuel = 0,
            !.remaining_daily_driving = @ - hours_to_fuel,
            !.remaining_daily_duty = @ - hours_to_fuel - HALF_HOUR,
            !.remaining_cycle_hours = @ - hours_to_fuel,
            !.rest_stops = Append(@, stop),
            !.current_time = stop.departure_time,
            !.span_driving = BaseDriving(s) + hours_to_fuel,
            !.span_duty = BaseDuty(s) + hours_to_fuel + HALF_HOUR,
            !.span_fuel = BaseFuel(s) + miles_to_fuel]

\* lines 199-202: complete the journey
FinishOf_ClockNotAdvanced(s) ==
    [s EXCEPT
        !.miles_traveled = s.total_miles,
        !.hours_driven = @ + HoursFor(s.total_miles - s.miles_traveled),
        !.span_driving = BaseDriving(s) + HoursFor(s.total_miles - s.miles_traveled),
        !.span_duty = BaseDuty(s) + HoursFor(s.total_miles - s.miles_traveled),
        !.span_fuel = BaseFuel(s) + (s.total_miles - s.miles_traveled)]
FinishOf(s) ==
    LET remaining_miles == s.total_miles - s.miles_traveled
        hours_needed == HoursFor(remaining_miles)
    IN  [s EXCEPT
            !.miles_traveled = s.total_miles,
            !.hours_driven = @ + hours_needed,
            !.current_time = @ + hours_needed,
            !.span_driving = BaseDriving(s) + hours_needed,
            !.span_duty = BaseDuty(s) + hours_needed,
            !.span_fuel = BaseFuel(s) + remaining_miles]

\* lines 213-230: the rest stop reached at an instant
RestStop_DepartsAtArrival(arrival, coords) ==
    [location |-> StopLocation(coords, "Unknown rest stop"),
     arrival_time |-> arrival,
     departure_time |-> arrival,
     rest_duration |-> MIN_REST_PERIOD * HOUR,
     is_fuel_stop |-> FALSE]
RestStop(arrival, coords) ==
    [location |-> StopLocation(coords, "Unknown rest stop"),
     arrival_time |-> arrival,
     departure_time |-> arrival + MIN_REST_PERIOD * HOUR,
     rest_duration |-> MIN_REST_PERIOD * HOUR,
     is_fuel_stop |-> FALSE]

\* lines 232-234: reset daily limits after rest
ResetAfterRest_CycleToo(s) ==
    [s EXCEPT
        !.remaining_daily_driving = MAX_DAILY_DRIVING * HOUR,
        !.remaining_daily_duty = MAX_DAILY_DUTY * HOUR,
        !.remaining_cycle_hours = (MAX_CYCLE_HOURS - s.current_cycle_used) * HOUR]
ResetAfterRest(s) ==
    [s EXCEPT
        !.remaining_daily_driving = MAX_DAILY_DRIVING * HOUR,
        !.remaining_daily_duty = MAX_DAILY_DUTY * HOUR]

\* lines 204-237: drive as far as allowed, then rest
RestLegOf(s, coords) ==
    LET drivable_hours == DrivableHours(s)
        drivable_miles == DrivableMiles(s)
        stop == RestStop(s.current_time + drivable_hours, coords)
        driven == [s EXCEPT
            !.miles_traveled = @ + drivable_miles,
            !.hours_driven = @ + drivable_hours,
            !.miles_since_last_fuel = @ + drivable_miles,
            !.rest_stops = Append(@, stop),
            !.current_time = stop.departure_time,
            !.span_driving = BaseDriving(s) + drivable_hours,
            !.span_duty = BaseDuty(s) + drivable_hours,
            !.span_fuel = BaseFuel(s) + drivable_miles]
    IN  ResetAfterRest(driven)

\* line 149
InLoop(s) ==
    s.pc = "loop" /\ s.miles_traveled < s.total_miles /\ Len(s.rest_stops) < MaxStops

\* lines 239-246
ReturnOf(s) == [s EXCEPT !.pc = "planned"]

Assign(n) ==
    /\ total_miles' = n.total_miles
    /\ current_cycle_used' = n.current_cycle_used
    /\ start_time' = n.start_time
    /\ remaining_daily_driving' = n.remaining_daily_driving
    /\ remaining_daily_duty' = n.remaining_daily_duty
    /\ remaining_cycle_hours' = n.remaining_cycle_hours
    /\ miles_since_last_fuel' = n.miles_since_last_fuel
    /\ current_time' = n.current_time
    /\ rest_stops' = n.rest_stops
    /\ miles_traveled' = n.miles_traveled
    /\ hours_driven' = n.hours_driven
    /\ span_driving' = n.span_driving
    /\ span_duty' = n.span_duty
    /\ span_fuel' = n.span_fuel
    /\ pc' = n.pc

FuelLegStep ==
    /\ InLoop(Sched)
    /\ NeedsFuel(Sched)
    /\ \E coords \in LookupResults : Assign(FuelLegOf(Sched, coords))
    /\ UNCHANGED logVars

FinishTripStep ==
    /\ InLoop(Sched)
    /\ ~NeedsFuel(Sched)
    /\ CanFinish(Sched)
    /\ Assign(FinishOf(Sched))
    /\ UNCHANGED logVars

RestLegStep ==
    /\ InLoop(Sched)
    /\ ~NeedsFuel(Sched)
    /\ ~CanFinish(Sched)
    /\ \E coords \in LookupResults : Assign(RestLegOf(Sched, coords))
    /\ UNCHANGED logVars

ReturnPlanStep ==
    /\ pc = "loop"
    /\ ~(miles_traveled < total_miles)
    /\ Assign(ReturnOf(Sched))
    /\ current_day' = start_time \div DAY
    /\ eld_logs' = <<>>

FuelLeg == FuelLegStep /\ UNCHANGED twin
FinishTrip == FinishTripStep /\ UNCHANGED twin
RestLeg == RestLegStep /\ UNCHANGED twin
ReturnPlan == ReturnPlanStep /\ UNCHANGED twin

\* -------------------------------------------------------- generate_eld_logs
\* datetime.date(): the day index of an instant
DateOf(t) == t \div DAY

\* datetime.combine(day, datetime.min.time()): midnight of a day
Midnight(day) == day * DAY

\* lines 278, 316-317, 330-331: t.hour + t.minute / 60.0, in minutes
HourOf(t) == (t % DAY) \div MINUTE

\* the literals 24 and 0.5 of the log hours, in minutes
HOURS_24 == 24 * 60
HALF == 30

Entry(status, start_hour, end_hour) ==
    [status |-> status, start_hour |-> start_hour, end_hour |-> end_hour]

\* lines 314-326
AddDrivingEntry(day_log, start_t, end_t) ==
    LET start_hour == HourOf(start_t)
        end_hour == HourOf(end_t)
    IN  IF end_hour > start_hour
        THEN [day_log EXCEPT
                !.log_entries = Append(@, Entry("driving", start_hour, end_hour)),
                !.total_driving_hours = @ + (end_hour - start_hour),
                !.total_on_duty_hours = @ + (end_hour - start_hour)]
        ELSE day_log

\* line 341: rest_end_hour > rest_start_hour + 0.5 on the floats h + m / 60.0.
\* When the stop lasts exactly 30 minutes the two sides differ by the rounding
\* of the float sums alone; RoundsBelowHalfHour lists the arrival minutes of
\* the day for which float(start) + 0.5 comes out below float(end).
RoundsBelowHalfHour ==
    {16, 20, 32, 40, 55, 65, 80, 94, 131, 154, 191, 218, 220, 233, 235, 247, 262,
     278, 293, 307, 322, 338, 353, 367, 382, 398, 413, 427, 442, 451, 455, 466,
     470, 932, 940, 947, 955}

ExceedsHalfHour(rest_start_hour, rest_end_hour) ==
    \/ rest_end_hour > rest_start_hour + HALF
    \/ rest_end_hour = rest_start_hour + HALF /\ rest_start_hour \in RoundsBelowHalfHour

\* lines 328-352
AddRestEntry(day_log, stop) ==
    LET rest_start_hour == HourOf(stop.arrival_time)
        rest_end_hour == HourOf(stop.departure_time)
    IN  IF stop.is_fuel_stop
        THEN LET on_duty == Entry("on_duty", rest_start_hour,
                                  Min(rest_start_hour + HALF, rest_end_hour))
                 with_duty == [day_log EXCEPT
                     !.log_entries = Append(@, on_duty),
                     !.total_on_duty_hours = @ + Min(HALF, rest_end_hour - rest_start_hour)]
             IN  IF ExceedsHalfHour(rest_start_hour, rest_end_hour)
                 THEN [with_duty EXCEPT !.log_entries =
                         Append(@, Entry("off_duty", rest_start_hour + HALF, rest_end_hour))]
                 ELSE with_duty
        ELSE [day_log EXCEPT !.log_entries =
                 Append(@, Entry("off_duty", rest_start_hour, rest_end_hour))]

\* line 285: the stops that arrive on the day, in plan order
RECURSIVE DayRestStops(_, _)
DayRestStops(stops, day) ==
    IF stops = <<>> THEN <<>>
    ELSE IF DateOf(Head(stops).arrival_time) = day
         THEN <<Head(stops)>> \o DayRestStops(Tail(stops), day)
         ELSE DayRestStops(Tail(stops), day)

\* lines 287-291: the loop over the day's stops; the state is the day log and the cursor
RECURSIVE ProcessStops(_, _, _)
ProcessStops(day_log, cursor, stops) ==
    IF stops = <<>> THEN [day_log |-> day_log, current_time |-> cursor]
    ELSE LET stop == Head(stops)
             driven == IF cursor < stop.arrival_time
                       THEN AddDrivingEntry(day_log, cursor, stop.arrival_time)
                       ELSE day_log
         IN  ProcessStops(AddRestEntry(driven, stop), stop.departure_time, Tail(stops))

\* lines 298-304
PadDay(day_log) ==
    LET last_entry == Last(day_log.log_entries)
    IN  IF last_entry.end_hour < HOURS_24
        THEN [day_log EXCEPT !.log_entries =
                 Append(@, Entry("off_duty", last_entry.end_hour, HOURS_24))]
        ELSE day_log

\* lines 262-307: one iteration of the loop over the days.  total_miles of the
\* day is total_driving_hours * 55 with the hours in minutes: 1/60 mile.
BuildDay(day, departure_time, arrival_time, stops) ==
    LET day_start == Max(departure_time, Midnight(day))
        day_end == Min(arrival_time, Midnight(day + 1))
        inspected == [date |-> day,
                      log_entries |-> <<Entry("on_duty", HourOf(day_start),
                                              HourOf(day_start + HALF_HOUR))>>,
                      total_driving_hours |-> 0,
                      total_on_duty_hours |-> HALF,
                      total_miles |-> 0]
        after == ProcessStops(inspected, day_start + HALF_HOUR, DayRestStops(stops, day))
        filled == IF after.current_time < day_end
                  THEN AddDrivingEntry(after.day_log, after.current_time, day_end)
                  ELSE after.day_log
        padded == PadDay(filled)
    IN  [padded EXCEPT !.total_miles = padded.total_driving_hours * AVG_SPEED]

\* line 261: while current_day <= end_day
LogDay ==
    /\ pc = "planned"
    /\ current_day <= DateOf(current_time)
    /\ eld_logs' = Append(eld_logs, BuildDay(current_day, start_time, current_time, rest_stops))
    /\ current_day' = current_day + 1
    /\ UNCHANGED <<schedVars, twin>>

\* line 312
ReturnLogs ==
    /\ pc = "planned"
    /\ ~(current_day <= DateOf(current_time))
    /\ pc' = "logged"
    /\ UNCHANGED <<total_miles, current_cycle_used, start_time, remaining_daily_driving,
                   remaining_daily_duty, remaining_cycle_hours, miles_since_last_fuel,
                   current_time, rest_stops, miles_traveled, hours_driven,
                   span_driving, span_duty, span_fuel>>
    /\ UNCHANGED <<logVars, twin>>

Start(s) ==
    /\ total_miles = s.total_miles
    /\ current_cycle_used = s.current_cycle_used
    /\ start_time = s.start_time
    /\ remaining_daily_driving = s.remaining_daily_driving
    /\ remaining_daily_duty = s.remaining_daily_duty
    /\ remaining_cycle_hours = s.remaining_cycle_hours
    /\ miles_since_last_fuel = s.miles_since_last_fuel
    /\ current_time = s.current_time
    /\ rest_stops = s.rest_stops
    /\ miles_traveled = s.miles_traveled
    /\ hours_driven = s.hours_driven
    /\ span_driving = s.span_driving
    /\ span_duty = s.span_duty
    /\ span_fuel = s.span_fuel
    /\ pc = s.pc
    /\ current_day = 0
    /\ eld_logs = <<>>

Init ==
    \E miles \in Distances, used \in CycleUsed, hour \in StartHours :
        /\ Start(InitSched(miles, used, hour))
        /\ twin = [pc |-> "off"]

Next == FuelLeg \/ FinishTrip \/ RestLeg \/ ReturnPlan \/ LogDay \/ ReturnLogs

Spec == Init /\ [][Next]_vars

\* ------------------------------------------------- two runs, the same inputs
\* lines 149-237: one loop iteration, whichever branch it takes
LegOf(s, coords) ==
    IF NeedsFuel(s) THEN FuelLegOf(s, coords)
    ELSE IF CanFinish(s) THEN FinishOf(s)
    ELSE RestLegOf(s, coords)

\* the second run takes its own next step, with its own lookup result
TwinStep ==
    IF InLoop(twin) THEN \E coords \in LookupResults : twin' = LegOf(twin, coords)
    ELSE IF twin.pc = "loop" /\ ~(twin.miles_traveled < twin.total_miles)
         THEN twin' = ReturnOf(twin)
         ELSE UNCHANGED twin

PairFuelLeg == FuelLegStep /\ TwinStep
PairFinishTrip == FinishTripStep /\ TwinStep
PairRestLeg == RestLegStep /\ TwinStep
PairReturnPlan == ReturnPlanStep /\ TwinStep

InitPair ==
    \E miles \in PairDistances, used \in PairCycleUsed, hour \in PairStartHours :
        /\ Start(InitSched(miles, used, hour))
        /\ twin = InitSched(miles, used, hour)

NextPair == PairFuelLeg \/ PairFinishTrip \/ PairRestLeg \/ PairReturnPlan

SpecPair == InitPair /\ [][NextPair]_vars
\* --------------------------------------------------- inputs outside the contract
\* plan_rest_stops has no check of its arguments: these runs start it with a
\* distance that is not positive or a current_cycle_used outside [0, 70]
AnyDistances == {-10, 0, 500, 1200}
AnyCycleUsed == {-5, 0, 71}
InvalidStartHours == {0, 9, 23}

InvalidInput(miles, used) == miles <= 0 \/ used < 0 \/ used > MAX_CYCLE_HOURS

InitInvalid ==
    \E miles \in AnyDistances, used \in AnyCycleUsed, hour \in InvalidStartHours :
        /\ InvalidInput(miles, used)
        /\ Start(InitSched(miles, used, hour))
        /\ twin = [pc |-> "off"]

SpecInvalid == InitInvalid /\ [][Next]_vars

\* ------------------------------------------------------------------- claims
IsPlan == pc \in {"planned", "logged"}
StopIndexes == 1 .. Len(rest_stops)
FuelStops == {i \in StopIndexes : rest_stops[i].is_fuel_stop}
RestStops == {i \in StopIndexes : ~rest_stops[i].is_fuel_stop}

RECURSIVE SumDurations(_)
SumDurations(stops) ==
    IF stops = <<>> THEN 0 ELSE Head(stops).rest_duration + SumDurations(Tail(stops))

RECURSIVE SumLengths(_)
SumLengths(entries) ==
    IF entries = <<>> THEN 0
    ELSE (Head(entries).end_hour - Head(entries).start_hour) + SumLengths(Tail(entries))

\* the entries tile [0,24): the first starts at 0, each starts where the
\* previous one ends, none is empty or reversed, the last ends at 24
Partitions(entries) ==
    /\ entries # <<>>
    /\ entries[1].start_hour = 0
    /\ Last(entries).end_hour = HOURS_24
    /\ \A i \in 1 .. Len(entries) : entries[i].start_hour < entries[i].end_hour
    /\ \A i \in 2 .. Len(entries) : entries[i].start_hour = entries[i - 1].end_hour

\* C1: for a plan of a run with cycleHoursUsed in [0,70), the log entries of
\* every DutyDay partition [0,24) without gap or overlap and their lengths
\* sum to 24 hours.
C1_DaysPartition ==
    current_cycle_used < MAX_CYCLE_HOURS =>
        \A d \in 1 .. Len(eld_logs) :
            /\ Partitions(eld_logs[d].log_entries)
            /\ SumLengths(eld_logs[d].log_entries) = HOURS_24

\* C2: the hours driven since the last Rest stop (or departure) never exceed
\* MAX_DAILY_DRIVING, and the on-duty hours since the last Rest stop (driving
\* plus half an hour per fuel stop) never exceed MAX_DAILY_DUTY, at the end
\* of every leg, the final one included.
C2_DailyLimits ==
    /\ span_driving <= MAX_DAILY_DRIVING * HOUR
    /\ span_duty <= MAX_DAILY_DUTY * HOUR

\* a span that reaches both a fuel stop and the daily driving limit: the
\* fuel leg and the rest leg after it drive MAX_DAILY_DRIVING hours together
C2_Witness ==
    /\ LastIsRest(Sched)
    /\ FuelStops # {}
    /\ span_driving = MAX_DAILY_DRIVING * HOUR
    /\ span_duty = MAX_DAILY_DRIVING * HOUR + HALF_HOUR

\* C3: a returned plan's total_driving_hours is at most
\* MAX_CYCLE_HOURS - cycleHoursUsed.
C3_CycleLimit ==
    IsPlan => hours_driven <= (MAX_CYCLE_HOURS - current_cycle_used) * HOUR

\* C4: the miles driven since the previous fuel stop (or departure) are at
\* most FUEL_DISTANCE at the end of every leg, the final one included.
C4_FuelDistance == span_fuel <= FUEL_DISTANCE * MILE

\* a trip with two fuel stops 1000 miles apart, completed by a final leg
\* driven after the second one
C4_Witness ==
    /\ IsPlan
    /\ Cardinality(FuelStops) >= 2
    /\ miles_traveled = total_miles
    /\ LastIsFuel(Sched)
    /\ span_fuel > 0 /\ span_fuel < FUEL_DISTANCE * MILE

\* C5: the scheduling loop stops: an iteration that leaves the loop running
\* has made mileage progress, so the distance left bounds the iterations.
C5_LoopProgress ==
    [][(pc = "loop" /\ pc' = "loop") => miles_traveled' > miles_traveled]_vars

\* C6: with cycleHoursUsed = 69 and more than 55 miles to drive, no plan is
\* returned (the run ends with an infeasible-trip error).
C6_ScenarioDNoPlan ==
    (current_cycle_used = 69 /\ total_miles > AVG_SPEED * MILE) => ~IsPlan

\* C7: a returned plan has estimated_arrival > departure_time, and
\* estimated_arrival - departure_time = total_driving_hours + the sum of the
\* stops' rest_duration.
C7_ArrivalAccounting ==
    IsPlan =>
        /\ current_time > start_time
        /\ current_time - start_time = hours_driven + SumDurations(rest_stops)

\* a returned plan with fuel stops and rest stops
C7_Witness ==
    /\ pc = "planned"
    /\ Cardinality(FuelStops) >= 2 /\ Cardinality(RestStops) >= 3
    /\ SumDurations(rest_stops) > 3 * MIN_REST_PERIOD * HOUR

\* C8: the stops are in non-decreasing arrival order, each departs after it
\* arrives, and each arrives at or after the previous stop's departure and
\* at or after the trip's departure.
C8_StopsOrdered ==
    \A i \in StopIndexes :
        /\ rest_stops[i].departure_time > rest_stops[i].arrival_time
        /\ rest_stops[i].arrival_time >= start_time
        /\ i > 1 => /\ rest_stops[i].arrival_time >= rest_stops[i - 1].arrival_time
                    /\ rest_stops[i].arrival_time >= rest_stops[i - 1].departure_time

\* a plan with at least four stops, a fuel stop right after a rest stop and
\* a rest stop right after a fuel stop
C8_Witness ==
    /\ Len(rest_stops) >= 4
    /\ \E i \in StopIndexes : i > 1 /\ rest_stops[i].is_fuel_stop /\ ~rest_stops[i - 1].is_fuel_stop
    /\ \E i \in StopIndexes : i > 1 /\ ~rest_stops[i].is_fuel_stop /\ rest_stops[i - 1].is_fuel_stop

\* C9: every Rest stop lasts exactly MIN_REST_PERIOD hours; right after a
\* Rest stop remaining_daily_driving = 11 and remaining_daily_duty = 14; and
\* remaining_cycle_hours never increases from one step to the next.
C9_RestResets ==
    /\ [](\A i \in RestStops :
             /\ rest_stops[i].rest_duration = MIN_REST_PERIOD * HOUR
             /\ rest_stops[i].departure_time - rest_stops[i].arrival_time
                   = MIN_REST_PERIOD * HOUR)
    /\ [][(Len(rest_stops') > Len(rest_stops) /\ ~Last(rest_stops').is_fuel_stop) =>
             /\ remaining_daily_driving' = MAX_DAILY_DRIVING * HOUR
             /\ remaining_daily_duty' = MAX_DAILY_DUTY * HOUR
             /\ remaining_cycle_hours' = remaining_cycle_hours]_vars
    /\ [][remaining_cycle_hours' <= remaining_cycle_hours]_vars

\* a rest stop taken after a fuel leg has charged the cycle
C9_Witness ==
    /\ pc = "loop"
    /\ LastIsRest(Sched)
    /\ FuelStops # {}
    /\ remaining_cycle_hours < (MAX_CYCLE_HOURS - current_cycle_used) * HOUR

\* what a run schedules: everything of its state but the stops' locations
Schedule(s) ==
    [stops |-> [i \in 1 .. Len(s.rest_stops) |->
                    [arrival_time |-> s.rest_stops[i].arrival_time,
                     departure_time |-> s.rest_stops[i].departure_time,
                     rest_duration |-> s.rest_stops[i].rest_duration,
                     is_fuel_stop |-> s.rest_stops[i].is_fuel_stop]],
     total_driving_hours |-> s.hours_driven,
     departure_time |-> s.start_time,
     estimated_arrival |-> s.current_time,
     total_miles |-> s.total_miles,
     pc |-> s.pc]

Locations(s) == [i \in 1 .. Len(s.rest_stops) |-> s.rest_stops[i].location]

\* C10: two runs with the same distance, cycleHoursUsed and start time
\* schedule the same stops, times, total_driving_hours and estimated_arrival
\* whatever the lookup returns to each; only the locations may differ.
C10_LookupIndependent == Schedule(Sched) = Schedule(twin)

\* both runs returned a plan with fuel and rest stops, and the lookups gave
\* them different locations
C10_Witness ==
    /\ pc = "planned" /\ twin.pc = "planned"
    /\ FuelStops # {} /\ RestStops # {}
    /\ \E i \in FuelStops : Locations(Sched)[i] # Locations(twin)[i]
    /\ \E i \in RestStops : Locations(Sched)[i] # Locations(twin)[i]
\* the run of a scenario: its distance in miles and its cycleHoursUsed
IsScenario(miles, used) == total_miles = miles * MILE /\ current_cycle_used = used
StartHour == start_time \div HOUR

\* C11 as stated: for 500 miles and cycleHoursUsed 0, whatever the departure
\* hour, the plan has no stop and generate_eld_logs returns one DutyDay.
C11_ScenarioAOneDay ==
    (IsScenario(500, 0) /\ pc = "logged") =>
        /\ rest_stops = <<>>
        /\ DateOf(current_time) = DateOf(start_time)
        /\ Len(eld_logs) = 1

\* C11 amended: for 500 miles and cycleHoursUsed 0 the plan has no stop for
\* every departure hour; the trip is a single-day trip with one DutyDay when
\* it departs at 14:00 or earlier, and it arrives on the next calendar day
\* and has two DutyDays when it departs at 15:00 or later.
C11_ScenarioA ==
    (IsScenario(500, 0) /\ pc = "logged") =>
        /\ rest_stops = <<>>
        /\ hours_driven = HoursFor(500 * MILE)
        /\ StartHour <= 14 => (DateOf(current_time) = DateOf(start_time) /\ Len(eld_logs) = 1)
        /\ StartHour >= 15 => (DateOf(current_time) = DateOf(start_time) + 1 /\ Len(eld_logs) = 2)

\* Scenario A departs at 15:00 and its log is complete
C11_Witness == IsScenario(500, 0) /\ pc = "logged" /\ StartHour = 15

\* the miles driven when stop i is reached: the time from the departure to
\* its arrival that was not spent at earlier stops, at AVG_SPEED
MilesAtStop(i) ==
    ((rest_stops[i].arrival_time - start_time - SumDurations(SubSeq(rest_stops, 1, i - 1)))
        * AVG_SPEED * MILE) \div HOUR

\* C12 as stated: for 1200 miles and cycleHoursUsed 0, whatever the departure
\* hour, the plan has exactly one Fuel stop, reached after at most 1000
\* driven miles, and the trip spans exactly 2 calendar days (2 DutyDays).
C12_ScenarioBTwoDays ==
    (IsScenario(1200, 0) /\ pc = "logged") =>
        /\ Cardinality(FuelStops) = 1
        /\ \A i \in FuelStops : MilesAtStop(i) <= FUEL_DISTANCE * MILE
        /\ DateOf(current_time) = DateOf(start_time) + 1
        /\ Len(eld_logs) = 2

\* C12 amended: for 1200 miles and cycleHoursUsed 0 the plan has exactly one
\* Fuel stop, reached after at most 1000 driven miles, for every departure
\* hour; the trip spans 2 calendar days when it departs at 15:00 or earlier
\* and 3 calendar days (3 DutyDays) when it departs at 16:00 or later.
C12_ScenarioB ==
    (IsScenario(1200, 0) /\ pc = "logged") =>
        /\ Cardinality(FuelStops) = 1
        /\ \A i \in FuelStops : MilesAtStop(i) <= FUEL_DISTANCE * MILE
        /\ StartHour <= 15 =>
              (DateOf(current_time) = DateOf(start_time) + 1 /\ Len(eld_logs) = 2)
        /\ StartHour >= 16 =>
              (DateOf(current_time) = DateOf(start_time) + 2 /\ Len(eld_logs) = 3)

\* Scenario B departs at 16:00, has taken its fuel stop and its log is complete
C12_Witness ==
    IsScenario(1200, 0) /\ pc = "logged" /\ StartHour = 16 /\ FuelStops # {}
\* C13: a run with a non-positive distance or a cycleHoursUsed outside
\* [0,70] is rejected: it emits no stop and returns no plan.
C13_InvalidRejected ==
    InvalidInput(total_miles, current_cycle_used) => (rest_stops = <<>> /\ ~IsPlan)
DayIndexes == 1 .. Len(eld_logs)
EntriesOf(d) == eld_logs[d].log_entries
\* the runs the log claims are about: a plan of a run with valid arguments
ValidRun == ~InvalidInput(total_miles, current_cycle_used)

\* C14: every log entry has 0 <= start_hour < end_hour <= 24, starts where
\* the previous entry of its day ends, and the day's last entry ends at 24.
C14_EntriesChained ==
    ValidRun =>
        \A d \in DayIndexes :
            /\ Last(EntriesOf(d)).end_hour = HOURS_24
            /\ \A i \in 1 .. Len(EntriesOf(d)) :
                  /\ 0 <= EntriesOf(d)[i].start_hour
                  /\ EntriesOf(d)[i].start_hour < EntriesOf(d)[i].end_hour
                  /\ EntriesOf(d)[i].end_hour <= HOURS_24
                  /\ i > 1 => EntriesOf(d)[i].start_hour = EntriesOf(d)[i - 1].end_hour

\* the day of a built DutyDay, its window's end, and the cursor after its
\* last stop (after the inspection when no stop arrives on the day)
DayOf(d) == eld_logs[d].date
DayEndOf(d) == Min(current_time, Midnight(DayOf(d) + 1))
StopsOn(d) == {i \in StopIndexes : DateOf(rest_stops[i].arrival_time) = DayOf(d)}
CursorOf(d) ==
    IF StopsOn(d) = {}
    THEN Max(start_time, Midnight(DayOf(d))) + HALF_HOUR
    ELSE rest_stops[CHOOSE i \in StopsOn(d) : \A j \in StopsOn(d) : j <= i].departure_time
\* the log hour at which an interval that ends at instant t ends: 24 at midnight
EndHourOf(t) == IF t % DAY = 0 THEN HOURS_24 ELSE HourOf(t)

\* C15: when the cursor after the day's last stop precedes the day's end (by
\* a minute or more), the day has a Driving entry from the cursor to the
\* day's end, ending at hour 24 when the trip continues past midnight, and
\* its length is part of total_driving_hours.
C15_FinalDriving ==
    ValidRun =>
        \A d \in DayIndexes :
            (CursorOf(d) < DayEndOf(d) /\ CursorOf(d) \div MINUTE < DayEndOf(d) \div MINUTE) =>
                /\ \E i \in 1 .. Len(EntriesOf(d)) :
                      /\ EntriesOf(d)[i].status = "driving"
                      /\ EntriesOf(d)[i].start_hour = HourOf(CursorOf(d))
                      /\ EntriesOf(d)[i].end_hour = EndHourOf(DayEndOf(d))
                /\ eld_logs[d].total_driving_hours >= EndHourOf(DayEndOf(d)) - HourOf(CursorOf(d))

\* C16: every Fuel stop gives its day exactly one OnDuty entry of 30 minutes
\* that starts at the stop's arrival, and every DutyDay has
\* 0 <= total_driving_hours <= total_on_duty_hours <= 24.
C16_FuelOnDuty ==
    ValidRun =>
        \A d \in DayIndexes :
            /\ 0 <= eld_logs[d].total_driving_hours
            /\ eld_logs[d].total_driving_hours <= eld_logs[d].total_on_duty_hours
            /\ eld_logs[d].total_on_duty_hours <= HOURS_24
            /\ \A s \in StopsOn(d) : rest_stops[s].is_fuel_stop =>
                  Cardinality({i \in 1 .. Len(EntriesOf(d)) :
                      /\ EntriesOf(d)[i].status = "on_duty"
                      /\ EntriesOf(d)[i].start_hour = HourOf(rest_stops[s].arrival_time)
                      /\ EntriesOf(d)[i].end_hour = EntriesOf(d)[i].start_hour + HALF}) = 1

\* C17: no Driving log entry is longer than MAX_DAILY_DRIVING hours.
C17_DrivingEntryLimit ==
    ValidRun =>
        \A d \in DayIndexes : \A i \in 1 .. Len(EntriesOf(d)) :
            EntriesOf(d)[i].status = "driving" =>
                EntriesOf(d)[i].end_hour - EntriesOf(d)[i].start_hour <= MAX_DAILY_DRIVING * 60
\* C18: plan_rest_stops never drives past the destination: miles_traveled
\* <= total_miles after every iteration, no stop lies beyond total_miles,
\* and a returned plan has total_driving_hours * AVG_SPEED = total_miles.
C18_NoOvershoot ==
    ValidRun =>
        /\ miles_traveled <= total_miles
        /\ \A i \in StopIndexes : MilesAtStop(i) <= total_miles
        /\ IsPlan => (hours_driven * AVG_SPEED * MILE) \div HOUR = total_miles

\* C19: for valid inputs the budgets stay within 0 .. 11, 0 .. 14 and
\* 0 .. 70 - cycleHoursUsed hours, drivable_hours is never negative,
\* miles_traveled never decreases and current_time never moves backwards.
C19_BudgetsInRange ==
    /\ [](ValidRun =>
             /\ 0 <= remaining_daily_driving
             /\ remaining_daily_driving <= MAX_DAILY_DRIVING * HOUR
             /\ 0 <= remaining_daily_duty
             /\ remaining_daily_duty <= MAX_DAILY_DUTY * HOUR
             /\ 0 <= remaining_cycle_hours
             /\ remaining_cycle_hours <= (MAX_CYCLE_HOURS - current_cycle_used) * HOUR
             /\ DrivableHours(Sched) >= 0)
    /\ [][miles_traveled' >= miles_traveled /\ current_time' >= current_time]_vars

\* a fuel leg has charged all three budgets and the loop goes on
C19_Witness ==
    /\ pc = "loop" /\ miles_traveled < total_miles
    /\ LastIsFuel(Sched)
    /\ 0 < remaining_daily_driving /\ remaining_daily_driving < MAX_DAILY_DRIVING * HOUR
    /\ remaining_daily_duty = remaining_daily_driving + (MAX_DAILY_DUTY - MAX_DAILY_DRIVING) * HOUR - HALF_HOUR
    /\ remaining_cycle_hours < (MAX_CYCLE_HOURS - current_cycle_used) * HOUR
    /\ current_cycle_used > 0

\* C20: for every Rest stop and every minute inside [arrival, departure), the
\* DutyDay of that minute has no Driving and no OnDuty entry that covers it.
C20_RestNotLoggedOnDuty ==
    ValidRun =>
        \A r \in RestStops : \A d \in DayIndexes : \A i \in 1 .. Len(EntriesOf(d)) :
            EntriesOf(d)[i].status \in {"driving", "on_duty"} =>
                ~(/\ Max(DayOf(d) * HOURS_24 + EntriesOf(d)[i].start_hour,
                         rest_stops[r].arrival_time \div MINUTE)
                      < Min(DayOf(d) * HOURS_24 + EntriesOf(d)[i].end_hour,
                            rest_stops[r].departure_time \div MINUTE))
====
